---------------------------- MODULE Spec2Model ----------------------------
(***************************************************************************)
(* coco: single-threaded cooperative runtime (src/coco.h, lines 20-402).   *)
(* The model covers the scheduler (scheduler_t), the task life cycle       *)
(* (co_t / promise_type) with join and exception capture, the channel      *)
(* (chan_t<T>) with its two awaiters read_wait_t and write_wait_t, and     *)
(* the wait group (wg_t).                                                  *)
(*                                                                         *)
(* One thread runs everything: either the main function (which creates     *)
(* tasks, calls co_t::resume(), chan_t::close() and scheduler_t::run())    *)
(* or the task that run() has resumed (cur).                               *)
(***************************************************************************)
EXTENDS Integers, Sequences, FiniteSets, TLC

\* ------------------------------------------------------------- bounds
NTasks == 4      \* number of coroutines main can create
NLive == 3       \* coroutines main creates in the scenarios with free-running tasks
MaxCap == 2      \* channel capacities 0..MaxCap are explored
MaxOps == 5      \* operations the free-running tasks may issue in total
MaxN   == 3      \* a producer writes 1..n values, n <= MaxN
MaxJoinOps == 2  \* operations the tasks of the join scenarios issue in total
MaxWgOps == 6    \* operations the tasks of the wait group scenarios issue in total
MaxAllOps == 3   \* operations the tasks issue in total when every primitive is in use
NAll == 2        \* number of tasks in the scenarios in which every primitive is in use
MaxCnt == 3      \* wg_t::cnt is explored up to this value
NErrors == 2     \* distinct exceptions a task body may throw
MaxResume == 1   \* extra calls of co_t::resume by main on a task it already started
MaxYields == 2   \* yields the tasks with a scripted body issue in total
CntBits == 2     \* width in bits of the wait group counter (uint64_t in the source)
MaxYieldOps == 4 \* yields of both kinds the yielder tasks issue in total

Tasks == 1..NTasks

\* exceptions thrown by task bodies; nullptr is the empty std::exception_ptr
Errors == 1..NErrors
nullptr == 0

\* std::nullopt, the empty optional returned by a read (values are >= 1)
nullopt == 0

VARIABLES
    \* scheduler_t
    q,             \* scheduler_t::q, the ready queue of coroutine handles
    running,       \* TRUE while the thread is inside scheduler_t::run()
    cur,           \* the task run() has resumed and that is executing, 0 if none
    \* co_t / promise_type
    pc,            \* where each coroutine is suspended (or "run", or "done")
    prog,          \* the body of each coroutine: "free", "producer", "consumer", "none"
    nvals,         \* how many values a producer body writes before it closes
    ops,           \* producer body: operations issued so far (its loop counter)
    nops,          \* operations issued so far by the free-running tasks
    \* chan_t
    cap_,          \* chan_t::cap_
    dataq,         \* chan_t::dataq, the bounded buffer
    handoff_q,     \* chan_t::handoff_q, values of suspended writers
    closed_,       \* chan_t::closed_
    rq,            \* chan_t::rq, suspended readers
    wq,            \* chan_t::wq, suspended writers
    \* write_wait_t, one awaiter per task at a time
    data_,         \* write_wait_t::data_ of the task's current/last write
    is_waked_up_,  \* write_wait_t::is_waked_up_
    \* observations (what user code and the tests can see)
    rlog,          \* per task: the results of its reads, in order
    wres,          \* per written value v (= index): "pending", "true", "false"
    delivered,     \* all values returned by reads, in the order returned
    adopted,       \* values a reader took out of handoff_q (taken or promoted)
    accepted,      \* values a write pushed onto the buffer or the handoff queue
    atClose,       \* what the first close() found: buffer, handoff queue, the values
                   \* of the suspended writers, the suspended tasks
    postClose,     \* results of the reads that completed after close()
    \* promise_type / join_awaiter
    join_waiters,  \* promise_type::join_waiters of each task
    exception,     \* promise_type::exception of each task, nullptr if none
    coro,          \* join_awaiter::coro of the task's current/last join
    jlog,          \* per task: <<joined task, exception raised, was suspended>>, in order
    \* wg_t
    cnt,           \* wg_t::cnt
    waiters,       \* wg_t::waiters
    guard,         \* per task: the body holds a live wg_guard_t
    excess,        \* done() has been called while the counter was 0
    \* main
    nres           \* extra resume() calls main has made on started tasks

chanVars == <<cap_, dataq, handoff_q, closed_, rq, wq>>
taskVars == <<pc, prog, nvals, ops, nops, data_, is_waked_up_>>
obsVars  == <<rlog, wres, delivered, adopted, accepted, atClose, postClose>>
syncVars == <<join_waiters, exception, coro, jlog, cnt, waiters, nres, guard, excess>>
vars     == <<q, running, cur, chanVars, taskVars, obsVars, syncVars>>

Range(s) == {s[i] : i \in 1..Len(s)}

\* ------------------------------------------------------------- scheduler_t

\* mutant: the handle is pushed at the front of the queue
schedule_at_front(queue, h) == IF pc[h] # "done" THEN <<h>> \o queue ELSE queue

\* mutant: the handle is pushed without the done() test
schedule_unchecked(queue, h) == Append(queue, h)

\* scheduler_t::schedule: push the handle unless the coroutine is done
schedule(queue, h) == IF pc[h] # "done" THEN Append(queue, h) ELSE queue

\* push every handle of a wait queue, in order (the while loops of close())
RECURSIVE scheduleAll(_, _)
scheduleAll(queue, hs) ==
    IF hs = <<>> THEN queue ELSE scheduleAll(schedule(queue, Head(hs)), Tail(hs))


\* ------------------------------------------------------------- task bodies

\* the result of the task's latest write (co_await ch.write(i) in a producer)
lastWriteOk(t) == IF data_[t] = 0 THEN TRUE ELSE wres[data_[t]] = "true"

\* the task's latest read returned std::nullopt (the consumer's loop exit)
lastReadNone(t) == IF rlog[t] = <<>> THEN FALSE ELSE rlog[t][Len(rlog[t])] = nullopt

\* which operation the body of task t may issue next.
\*   free:     any operation, at most MaxOps of them over all tasks
\*   join, wg, any: the same with the budget of their scenario
\*   producer: for (i = 1..n) { ok = co_await ch.write(i); if (!ok) break; } ch.close();
\*   consumer: while (true) { r = co_await ch.read(); if (!r.has_value()) break; }
\*   worker:   wg_guard_t guard(&wg); co_yield resched; ...; co_return or throw
\*   waiter:   wg.add(n); co_await wg.wait();
\*   yielder:  any sequence of co_yield resched and co_yield no_sched
\*   receiver: r = co_await ch.read();
\*   closer:   ch.close(); ch.close();
\*   sender:   for (i = 1..n) co_await ch.write(i);
\*   roundtrip: for (i = 1..n) co_await ch.write(i); for (i = 1..n) co_await ch.read();
MayIssue(t, op) ==
    CASE prog[t] = "free"     -> nops < MaxOps
      [] prog[t] = "join"     -> nops < MaxJoinOps
      [] prog[t] = "wg"       -> nops < MaxWgOps
      [] prog[t] = "any"      -> nops < MaxAllOps
      [] prog[t] = "producer" ->
            \/ op = "write" /\ ops[t] < nvals /\ lastWriteOk(t)
            \/ op = "close" /\ ops[t] <= nvals /\ ~(ops[t] < nvals /\ lastWriteOk(t))
      [] prog[t] = "consumer" -> op = "read" /\ ~lastReadNone(t)
      [] prog[t] = "worker"   ->
            \/ op = "guard" /\ ops[t] = 0
            \/ op = "yield" /\ ops[t] = 1 /\ nops < MaxYields
      [] prog[t] = "waiter"   ->
            \/ op = "add" /\ ops[t] = 0
            \/ op = "wait" /\ ops[t] = 1
      [] prog[t] = "yielder"  -> op \in {"yield", "bare"} /\ nops < MaxYieldOps
      [] prog[t] = "receiver" -> op = "read" /\ ops[t] = 0
      [] prog[t] = "closer"   -> op = "close" /\ ops[t] < 2
      [] prog[t] = "sender"   -> op = "write" /\ ops[t] < nvals
      [] prog[t] = "roundtrip" ->
            \/ op = "write" /\ ops[t] < nvals
            \/ op = "read" /\ nvals <= ops[t] /\ ops[t] < 2 * nvals
      [] OTHER                -> FALSE

\* the body has reached co_return
MayReturn(t) ==
    CASE prog[t] \in {"free", "join", "wg", "any"} -> TRUE
      [] prog[t] = "producer" -> ops[t] = nvals + 1
      [] prog[t] = "consumer" -> lastReadNone(t)
      [] prog[t] = "worker"   -> ops[t] = 1
      [] prog[t] = "waiter"   -> ops[t] = 2
      [] prog[t] = "yielder"  -> TRUE
      [] prog[t] = "receiver" -> ops[t] = 1
      [] prog[t] = "closer"   -> ops[t] = 2
      [] prog[t] = "sender"   -> ops[t] = nvals
      [] prog[t] = "roundtrip" -> ops[t] = 2 * nvals
      [] OTHER                -> FALSE

\* the operation counters after task t issued op
Issued(t, op) ==
    /\ ops' = [ops EXCEPT ![t] =
                  IF prog[t] \in {"free", "join", "wg", "any"} \/ op \in {"yield", "bare"} THEN @
                  ELSE IF prog[t] = "producer" /\ op = "close" THEN nvals + 1
                  ELSE @ + 1]
    /\ nops' = IF prog[t] \in {"free", "join", "wg", "any"} \/ op \in {"yield", "bare"}
               THEN nops + 1 ELSE nops

\* ------------------------------------------------------------- chan_t::read_wait_t

\* mutant: await_ready without the closed() test
read_await_ready_ignores_closed == dataq # <<>> \/ handoff_q # <<>>

\* read_wait_t::await_ready
read_await_ready == dataq # <<>> \/ handoff_q # <<>> \/ closed_

\* mutant: the writer is popped from wq but never scheduled
wake_up_writer_unscheduled ==
    IF wq # <<>>
    THEN wq' = Tail(wq) /\ q' = q
    ELSE UNCHANGED <<wq, q>>

\* mutant: the writer suspended last is woken
wake_up_writer_last ==
    IF wq # <<>>
    THEN wq' = SubSeq(wq, 1, Len(wq) - 1) /\ q' = schedule(q, wq[Len(wq)])
    ELSE UNCHANGED <<wq, q>>

\* read_wait_t::wake_up_writer: pop the front suspended writer and schedule it
wake_up_writer ==
    IF wq # <<>>
    THEN wq' = Tail(wq) /\ q' = schedule(q, Head(wq))
    ELSE UNCHANGED <<wq, q>>

\* mutant: the handoff queue is served first on buffered channels too
take_handoff_any_capacity == handoff_q # <<>>

\* the first test of read_wait_t::await_resume: an unbuffered channel is
\* served from the handoff queue
take_handoff == cap_ = 0 /\ handoff_q # <<>>

\* mutant: the newest buffered value is returned
read_result_newest ==
    IF take_handoff THEN Head(handoff_q)
    ELSE IF dataq # <<>> THEN dataq[Len(dataq)]
    ELSE nullopt

\* the value read_wait_t::await_resume returns
read_result ==
    IF take_handoff THEN Head(handoff_q)
    ELSE IF dataq # <<>> THEN Head(dataq)
    ELSE nullopt

\* what task t observes when its read returns r
observe_read(t, r) ==
    /\ rlog' = [rlog EXCEPT ![t] = Append(@, r)]
    /\ delivered' = IF r # nullopt THEN Append(delivered, r) ELSE delivered
    /\ postClose' = IF closed_ THEN Append(postClose, r) ELSE postClose
    /\ adopted' = adopted \cup (Range(handoff_q) \ Range(handoff_q'))

\* mutant: a read returns the front of the buffer without popping it
read_await_resume_keeps_item(t) ==
    /\ IF take_handoff
       THEN /\ handoff_q' = Tail(handoff_q)
            /\ dataq' = dataq
            /\ wake_up_writer
       ELSE UNCHANGED <<dataq, handoff_q, wq, q>>
    /\ observe_read(t, read_result)

\* mutant: a read of a buffered value leaves the suspended senders alone
read_await_resume_no_promotion(t) ==
    /\ IF take_handoff
       THEN /\ handoff_q' = Tail(handoff_q)
            /\ dataq' = dataq
            /\ wake_up_writer
       ELSE IF dataq # <<>>
       THEN /\ dataq' = Tail(dataq)
            /\ UNCHANGED <<handoff_q, wq, q>>
       ELSE UNCHANGED <<dataq, handoff_q, wq, q>>
    /\ observe_read(t, read_result)

\* mutant: the direct handoff promotes the newest parked value
read_await_resume_promotes_newest(t) ==
    /\ IF take_handoff
       THEN /\ handoff_q' = Tail(handoff_q)
            /\ dataq' = dataq
            /\ wake_up_writer
       ELSE IF dataq # <<>>
       THEN IF handoff_q # <<>>
            THEN /\ dataq' = Append(Tail(dataq), handoff_q[Len(handoff_q)])
                 /\ handoff_q' = SubSeq(handoff_q, 1, Len(handoff_q) - 1)
                 /\ wake_up_writer
            ELSE /\ dataq' = Tail(dataq)
                 /\ UNCHANGED <<handoff_q, wq, q>>
       ELSE UNCHANGED <<dataq, handoff_q, wq, q>>
    /\ observe_read(t, read_result)

\* read_wait_t::await_resume
read_await_resume(t) ==
    /\ IF take_handoff
       THEN /\ handoff_q' = Tail(handoff_q)
            /\ dataq' = dataq
            /\ wake_up_writer
       ELSE IF dataq # <<>>
       THEN IF handoff_q # <<>>
            THEN \* direct handoff: one parked value moves into the buffer
                 /\ dataq' = Append(Tail(dataq), Head(handoff_q))
                 /\ handoff_q' = Tail(handoff_q)
                 /\ wake_up_writer
            ELSE /\ dataq' = Tail(dataq)
                 /\ UNCHANGED <<handoff_q, wq, q>>
       ELSE UNCHANGED <<dataq, handoff_q, wq, q>>
    /\ observe_read(t, read_result)

\* read_wait_t::await_suspend
read_await_suspend(t) ==
    /\ rq' = Append(rq, t)
    /\ pc' = [pc EXCEPT ![t] = "read"]
    /\ cur' = 0

\* co_await ch.read() issued by the running task
Read(t) ==
    /\ cur = t /\ pc[t] = "run" /\ MayIssue(t, "read")
    /\ Issued(t, "read")
    /\ IF read_await_ready
       THEN /\ read_await_resume(t)
            /\ UNCHANGED <<rq, pc, cur>>
       ELSE /\ read_await_suspend(t)
            /\ UNCHANGED <<dataq, handoff_q, wq, q, rlog, delivered, postClose, adopted>>
    /\ UNCHANGED <<syncVars, running, prog, nvals, cap_, closed_, data_, is_waked_up_, wres, atClose,
                   accepted>>

\* a reader that was suspended has been resumed by run(): await_resume runs
ReadResumed(t) ==
    /\ cur = t /\ pc[t] = "read"
    /\ read_await_resume(t)
    /\ pc' = [pc EXCEPT ![t] = "run"]
    /\ UNCHANGED <<rq, cur, ops, nops>>
    /\ UNCHANGED <<syncVars, running, prog, nvals, cap_, closed_, data_, is_waked_up_, wres, atClose,
                   accepted>>

\* ------------------------------------------------------------- chan_t::write_wait_t

\* mutant: await_ready without the closed() test
write_await_ready_ignores_closed ==
    IF cap_ = 0 THEN rq # <<>>
    ELSE Len(dataq) < cap_

\* mutant: off by one in the test for buffer space
write_await_ready_off_by_one ==
    IF closed_ THEN TRUE
    ELSE IF cap_ = 0 THEN rq # <<>>
    ELSE Len(dataq) <= cap_

\* write_wait_t::await_ready
write_await_ready ==
    IF closed_ THEN TRUE
    ELSE IF cap_ = 0 THEN rq # <<>>
    ELSE Len(dataq) < cap_

\* mutant: the reader suspended last is woken
wake_up_reader_last ==
    IF rq # <<>>
    THEN rq' = SubSeq(rq, 1, Len(rq) - 1) /\ q' = schedule(q, rq[Len(rq)])
    ELSE UNCHANGED <<rq, q>>

\* mutant: the reader is popped from rq but never scheduled
wake_up_reader_unscheduled ==
    IF rq # <<>>
    THEN rq' = Tail(rq) /\ q' = q
    ELSE UNCHANGED <<rq, q>>

\* write_wait_t::wake_up_reader: pop the front suspended reader and schedule it
wake_up_reader ==
    IF rq # <<>>
    THEN rq' = Tail(rq) /\ q' = schedule(q, Head(rq))
    ELSE UNCHANGED <<rq, q>>

\* write_wait_t::await_resume for the awaiter holding value v; woke is its
\* is_waked_up_ flag and wr the write results with v's entry present
write_await_resume(v, woke, wr) ==
    IF closed_
    THEN /\ wres' = [wr EXCEPT ![v] = "false"]
         /\ UNCHANGED <<dataq, handoff_q, rq, q, accepted>>
    ELSE /\ wres' = [wr EXCEPT ![v] = "true"]
         /\ IF woke
            THEN UNCHANGED <<dataq, handoff_q, rq, q, accepted>>
            ELSE IF cap_ = 0
            THEN /\ handoff_q' = Append(handoff_q, v)
                 /\ dataq' = dataq
                 /\ accepted' = accepted \cup {v}
                 /\ wake_up_reader
            ELSE /\ dataq' = Append(dataq, v)
                 /\ handoff_q' = handoff_q
                 /\ accepted' = accepted \cup {v}
                 /\ wake_up_reader

\* write_wait_t::await_suspend
write_await_suspend(t, v) ==
    /\ handoff_q' = Append(handoff_q, v)
    /\ accepted' = accepted \cup {v}
    /\ is_waked_up_' = [is_waked_up_ EXCEPT ![t] = TRUE]
    /\ wq' = Append(wq, t)
    /\ pc' = [pc EXCEPT ![t] = "write"]
    /\ cur' = 0

\* co_await ch.write(v) issued by the running task; v is the next fresh value
Write(t) ==
    /\ cur = t /\ pc[t] = "run" /\ MayIssue(t, "write")
    /\ Issued(t, "write")
    /\ LET v == Len(wres) + 1 IN
       /\ data_' = [data_ EXCEPT ![t] = v]
       /\ IF write_await_ready
          THEN /\ write_await_resume(v, FALSE, Append(wres, "pending"))
               /\ is_waked_up_' = [is_waked_up_ EXCEPT ![t] = FALSE]
               /\ UNCHANGED <<wq, pc, cur>>
          ELSE /\ write_await_suspend(t, v)
               /\ wres' = Append(wres, "pending")
               /\ UNCHANGED <<dataq, rq, q>>
    /\ UNCHANGED <<syncVars, running, prog, nvals, cap_, closed_, rlog, delivered, adopted,
                   atClose, postClose>>

\* a writer that was suspended has been resumed by run(): await_resume runs
WriteResumed(t) ==
    /\ cur = t /\ pc[t] = "write"
    /\ write_await_resume(data_[t], is_waked_up_[t], wres)
    /\ pc' = [pc EXCEPT ![t] = "run"]
    /\ UNCHANGED <<wq, cur, ops, nops, data_, is_waked_up_>>
    /\ UNCHANGED <<syncVars, running, prog, nvals, cap_, closed_, rlog, delivered, adopted,
                   atClose, postClose>>

\* ------------------------------------------------------------- chan_t::close

\* the values of the writers in wq that still sit in handoff_q
parkedValues == {data_[t] : t \in Range(wq)} \cap Range(handoff_q)

\* mutant: close() on a closed channel opens it again
close_toggles ==
    /\ closed_' = ~closed_
    /\ q' = scheduleAll(scheduleAll(q, rq), wq)
    /\ rq' = <<>>
    /\ wq' = <<>>
    /\ atClose' = IF closed_ THEN atClose
                  ELSE [done |-> TRUE, buf |-> dataq, hand |-> handoff_q,
                        parked |-> {data_[t] : t \in Range(wq)} \cap Range(handoff_q),
                        readers |-> Range(rq), writers |-> Range(wq)]

\* mutant: close() schedules the suspended writers before the readers
close_writers_first ==
    /\ closed_' = TRUE
    /\ q' = scheduleAll(scheduleAll(q, wq), rq)
    /\ rq' = <<>>
    /\ wq' = <<>>
    /\ atClose' = IF closed_ THEN atClose
                  ELSE [done |-> TRUE, buf |-> dataq, hand |-> handoff_q,
                        parked |-> {data_[t] : t \in Range(wq)} \cap Range(handoff_q),
                        readers |-> Range(rq), writers |-> Range(wq)]

\* mutant: close() wakes the readers and forgets the writers
close_readers_only ==
    /\ closed_' = TRUE
    /\ q' = scheduleAll(q, rq)
    /\ rq' = <<>>
    /\ wq' = wq
    /\ atClose' = IF closed_ THEN atClose
                  ELSE [done |-> TRUE, buf |-> dataq, hand |-> handoff_q,
                        parked |-> {data_[t] : t \in Range(wq)} \cap Range(handoff_q),
                        readers |-> Range(rq), writers |-> Range(wq)]

\* chan_t::close: mark closed, schedule every suspended reader, then every
\* suspended writer (atClose records what the first close found)
close ==
    /\ closed_' = TRUE
    /\ q' = scheduleAll(scheduleAll(q, rq), wq)
    /\ rq' = <<>>
    /\ wq' = <<>>
    /\ atClose' = IF closed_ THEN atClose
                  ELSE [done |-> TRUE, buf |-> dataq, hand |-> handoff_q,
                        parked |-> parkedValues,
                        readers |-> Range(rq), writers |-> Range(wq)]

\* ch.close() called by the running task
TaskClose(t) ==
    /\ cur = t /\ pc[t] = "run" /\ MayIssue(t, "close")
    /\ Issued(t, "close")
    /\ close
    /\ UNCHANGED <<syncVars, running, cur, pc, prog, nvals, cap_, dataq, handoff_q, data_,
                   is_waked_up_, rlog, wres, delivered, adopted, accepted, postClose>>

\* ch.close() called by main between two run() calls
MainClose ==
    /\ ~running
    /\ close
    /\ UNCHANGED <<syncVars, running, cur, pc, prog, nvals, ops, nops, cap_, dataq, handoff_q, data_,
                   is_waked_up_, rlog, wres, delivered, adopted, accepted, postClose>>

\* ------------------------------------------------------------- co_t / promise_type

\* main has called resume() on task t
Started(t) == pc[t] # "created" \/ t \in Range(q)

\* co_t::resume called by main on a task it created: schedule its handle.
\* Tasks are numbered in the order in which main starts them.
co_resume(t) ==
    /\ ~running
    /\ prog[t] # "none" /\ ~Started(t)
    /\ \A u \in Tasks : u < t => Started(u)
    /\ q' = schedule(q, t)
    /\ UNCHANGED <<syncVars, running, cur, chanVars, taskVars, obsVars>>

\* co_t::resume called by main once more on a task it has already started
\* (the task may be queued, suspended anywhere, or completed)
co_resume_again(t) ==
    /\ ~running
    /\ Started(t)
    /\ nres < MaxResume
    /\ nres' = nres + 1
    /\ q' = schedule(q, t)
    /\ UNCHANGED <<running, cur, chanVars, taskVars, obsVars,
                   join_waiters, exception, coro, jlog, cnt, waiters, guard, excess>>

\* mutant: the yielding coroutine is put at the front of the ready queue
yield_resched_in_front(t) ==
    /\ cur = t /\ pc[t] = "run" /\ MayIssue(t, "yield")
    /\ Issued(t, "yield")
    /\ q' = <<t>> \o q
    /\ pc' = [pc EXCEPT ![t] = "yield"]
    /\ cur' = 0
    /\ UNCHANGED <<syncVars, running, prog, nvals, data_, is_waked_up_, chanVars, obsVars>>

\* co_yield resched: promise_type::yield_value(resched_t) schedules the
\* coroutine itself and suspends it
yield_resched(t) ==
    /\ cur = t /\ pc[t] = "run" /\ MayIssue(t, "yield")
    /\ Issued(t, "yield")
    /\ q' = schedule(q, t)
    /\ pc' = [pc EXCEPT ![t] = "yield"]
    /\ cur' = 0
    /\ UNCHANGED <<syncVars, running, prog, nvals, data_, is_waked_up_, chanVars, obsVars>>

\* mutant: the bare yield schedules the coroutine as the reschedule yield does
yield_no_sched_reschedules(t) ==
    /\ cur = t /\ pc[t] = "run" /\ MayIssue(t, "bare")
    /\ Issued(t, "bare")
    /\ q' = schedule(q, t)
    /\ pc' = [pc EXCEPT ![t] = "bare"]
    /\ cur' = 0
    /\ UNCHANGED <<syncVars, running, prog, nvals, data_, is_waked_up_, chanVars, obsVars>>

\* co_yield no_sched: promise_type::yield_value(no_sched_t) only suspends
\* the coroutine
yield_no_sched(t) ==
    /\ cur = t /\ pc[t] = "run" /\ MayIssue(t, "bare")
    /\ Issued(t, "bare")
    /\ pc' = [pc EXCEPT ![t] = "bare"]
    /\ cur' = 0
    /\ UNCHANGED <<syncVars, q, running, prog, nvals, data_, is_waked_up_, chanVars, obsVars>>

\* co_t::resume called on a task suspended at a bare yield and not queued,
\* by main or by the body of another task
resume_yielded(t) ==
    /\ ~running \/ (cur # 0 /\ cur # t /\ pc[cur] = "run")
    /\ pc[t] = "bare" /\ t \notin Range(q)
    /\ q' = schedule(q, t)
    /\ UNCHANGED <<syncVars, running, cur, chanVars, taskVars, obsVars>>

\* co_t::~co_t called by main on the handle it owns: the frame is destroyed,
\* the scheduler keeps whatever reference to it the ready queue holds
co_destroy(t) ==
    /\ ~running
    /\ prog[t] # "none" /\ pc[t] \notin {"destroyed", "zombie"}
    /\ pc' = [pc EXCEPT ![t] = "destroyed"]
    /\ UNCHANGED <<syncVars, q, running, cur, prog, nvals, ops, nops, data_, is_waked_up_,
                   chanVars, obsVars>>

\* mutant: only the first join waiter is scheduled, the others are dropped
wake_join_waiters_first_only(t) ==
    /\ q' = IF join_waiters[t] = <<>> THEN q ELSE schedule(q, Head(join_waiters[t]))
    /\ join_waiters' = [join_waiters EXCEPT ![t] = <<>>]

\* the while loop of final_suspend: pop every join waiter and schedule it
wake_join_waiters(t) ==
    /\ q' = scheduleAll(q, join_waiters[t])
    /\ join_waiters' = [join_waiters EXCEPT ![t] = <<>>]

\* promise_type::completed (set by final_suspend, together with handle.done())
completed(t) == pc[t] = "done"

\* co_t::is_done
is_done(t) == completed(t)

\* co_t::get_exception
get_exception(t) == exception[t]

\* mutant: final_suspend transfers control to the first join waiter instead
\* of scheduling it
final_suspend_resumes_joiner(t) ==
    /\ pc' = [pc EXCEPT ![t] = "done"]
    /\ cur' = IF join_waiters[t] = <<>> THEN 0 ELSE Head(join_waiters[t])
    /\ q' = IF join_waiters[t] = <<>> THEN q ELSE scheduleAll(q, Tail(join_waiters[t]))
    /\ join_waiters' = [join_waiters EXCEPT ![t] = <<>>]

\* promise_type::final_suspend: mark the task completed and schedule its
\* join waiters
final_suspend(t) ==
    /\ pc' = [pc EXCEPT ![t] = "done"]
    /\ cur' = 0
    /\ wake_join_waiters(t)

\* mutant: the guard is dropped without calling done()
guarded_exit_without_done(t) ==
    /\ guard' = [guard EXCEPT ![t] = FALSE]
    /\ UNCHANGED <<cnt, waiters, excess>>
    /\ final_suspend(t)

\* the body of a task holding a wg_guard_t ends: ~wg_guard_t calls wg->done()
\* (decrement unless 0, at 0 schedule every waiter), then final_suspend runs
guarded_exit(t) ==
    LET c == IF cnt > 0 THEN cnt - 1 ELSE cnt
        woken == IF c = 0 THEN waiters ELSE <<>>
    IN  /\ guard' = [guard EXCEPT ![t] = FALSE]
        /\ cnt' = c
        /\ excess' = (excess \/ cnt = 0)
        /\ waiters' = IF c = 0 THEN <<>> ELSE waiters
        /\ pc' = [pc EXCEPT ![t] = "done"]
        /\ cur' = 0
        /\ q' = scheduleAll(scheduleAll(q, woken), join_waiters[t])
        /\ join_waiters' = [join_waiters EXCEPT ![t] = <<>>]

\* the body of task t ends, by co_return or by an exception: the locals of
\* the body are destroyed, then the coroutine reaches final_suspend
body_exit(t) ==
    IF guard[t]
    THEN guarded_exit(t)
    ELSE /\ final_suspend(t)
         /\ UNCHANGED <<cnt, waiters, guard, excess>>

\* the body of the running task reaches co_return
co_return(t) ==
    /\ cur = t /\ pc[t] = "run" /\ MayReturn(t)
    /\ body_exit(t)
    /\ UNCHANGED <<running, prog, nvals, ops, nops, data_, is_waked_up_, chanVars,
                   obsVars, exception, coro, jlog, nres>>

\* mutant: the exception is not captured and leaves run()
unhandled_exception_escapes(t, e) ==
    /\ exception' = exception
    /\ running' = FALSE

\* promise_type::unhandled_exception: the exception is stored in the promise,
\* nothing propagates to the caller of handle.resume()
unhandled_exception(t, e) ==
    /\ exception' = [exception EXCEPT ![t] = e]
    /\ running' = running

\* the body of the running task throws e and does not catch it
Throw(t, e) ==
    /\ cur = t /\ pc[t] = "run" /\ MayReturn(t)
    /\ unhandled_exception(t, e)
    /\ body_exit(t)
    /\ UNCHANGED <<prog, nvals, ops, nops, data_, is_waked_up_, chanVars,
                   obsVars, coro, jlog, nres>>

\* ------------------------------------------------------------- co_t::join_awaiter

\* mutant: a join never suspends
join_await_ready_always(u) == TRUE

\* join_awaiter::await_ready for a join on task u
join_await_ready(u) == completed(u)

\* join_awaiter::await_suspend: enrol the joiner unless u has completed
join_await_suspend(t, u) ==
    /\ join_waiters' = IF ~completed(u)
                       THEN [join_waiters EXCEPT ![u] = Append(@, t)]
                       ELSE join_waiters
    /\ pc' = [pc EXCEPT ![t] = "join"]
    /\ cur' = 0

\* mutant: await_resume never rethrows
join_await_resume_swallows(t, u) ==
    jlog' = [jlog EXCEPT ![t] = Append(@, <<u, nullptr, pc[t] = "join">>)]

\* join_awaiter::await_resume: rethrow the exception stored in u's promise,
\* if any. The joiner's log records the task joined, what the join raised
\* and whether the joiner had been suspended.
join_await_resume(t, u) ==
    jlog' = [jlog EXCEPT ![t] = Append(@, <<u, exception[u], pc[t] = "join">>)]

\* co_await u.join() issued by the running task t
Join(t, u) ==
    /\ cur = t /\ pc[t] = "run" /\ MayIssue(t, "join")
    /\ u # t /\ prog[u] # "none"
    /\ Issued(t, "join")
    /\ coro' = [coro EXCEPT ![t] = u]
    /\ IF join_await_ready(u)
       THEN /\ join_await_resume(t, u)
            /\ UNCHANGED <<join_waiters, pc, cur>>
       ELSE /\ join_await_suspend(t, u)
            /\ UNCHANGED jlog
    /\ UNCHANGED <<q, running, prog, nvals, data_, is_waked_up_, chanVars, obsVars,
                   exception, cnt, waiters, nres, guard, excess>>

\* a joiner that was suspended has been resumed by run(): await_resume runs
JoinResumed(t) ==
    /\ cur = t /\ pc[t] = "join"
    /\ join_await_resume(t, coro[t])
    /\ pc' = [pc EXCEPT ![t] = "run"]
    /\ UNCHANGED <<q, running, cur, prog, nvals, ops, nops, data_, is_waked_up_,
                   chanVars, obsVars, join_waiters, exception, coro, cnt, waiters, nres, guard, excess>>

\* ------------------------------------------------------------- wg_t

\* the counter is an unsigned integer of CntBits bits
CntModulus == 2 ^ CntBits

\* wg_t::add: cnt += delta on the unsigned counter
wg_add(delta) == cnt' = (cnt + delta) % CntModulus

\* mutant: only the first waiter is scheduled, the others are dropped
wg_done_wakes_first_only ==
    /\ cnt' = IF cnt > 0 THEN cnt - 1 ELSE cnt
    /\ excess' = (excess \/ cnt = 0)
    /\ IF cnt' = 0
       THEN /\ q' = IF waiters = <<>> THEN q ELSE schedule(q, Head(waiters))
            /\ waiters' = <<>>
       ELSE UNCHANGED <<q, waiters>>

\* mutant: the decrement is not guarded by cnt > 0
wg_done_underflows ==
    /\ cnt' = cnt - 1
    /\ excess' = (excess \/ cnt = 0)
    /\ IF cnt' = 0
       THEN /\ q' = scheduleAll(q, waiters)
            /\ waiters' = <<>>
       ELSE UNCHANGED <<q, waiters>>

\* mutant: the waiters are scheduled last enrolled first
wg_done_wakes_last_first ==
    /\ cnt' = IF cnt > 0 THEN cnt - 1 ELSE cnt
    /\ excess' = (excess \/ cnt = 0)
    /\ IF cnt' = 0
       THEN /\ q' = scheduleAll(q, [i \in 1..Len(waiters) |-> waiters[Len(waiters) + 1 - i]])
            /\ waiters' = <<>>
       ELSE UNCHANGED <<q, waiters>>

\* mutant: done() wakes the waiters whatever the counter is
wg_done_wakes_early ==
    /\ cnt' = IF cnt > 0 THEN cnt - 1 ELSE cnt
    /\ excess' = (excess \/ cnt = 0)
    /\ q' = scheduleAll(q, waiters)
    /\ waiters' = <<>>

\* wg_t::done: decrement unless already 0; at 0 schedule every waiter
wg_done ==
    /\ cnt' = IF cnt > 0 THEN cnt - 1 ELSE cnt
    /\ excess' = (excess \/ cnt = 0)
    /\ IF cnt' = 0
       THEN /\ q' = scheduleAll(q, waiters)
            /\ waiters' = <<>>
       ELSE UNCHANGED <<q, waiters>>

\* async_wait_t::await_ready
wg_await_ready == cnt = 0

\* async_wait_t::await_suspend
wg_await_suspend(t) ==
    /\ waiters' = Append(waiters, t)
    /\ pc' = [pc EXCEPT ![t] = "wait"]
    /\ cur' = 0

\* co_await wg.wait() issued by the running task (await_resume does nothing)
Wait(t) ==
    /\ cur = t /\ pc[t] = "run" /\ MayIssue(t, "wait")
    /\ Issued(t, "wait")
    /\ IF wg_await_ready
       THEN UNCHANGED <<waiters, pc, cur>>
       ELSE wg_await_suspend(t)
    /\ UNCHANGED <<q, running, prog, nvals, data_, is_waked_up_, chanVars, obsVars,
                   join_waiters, exception, coro, jlog, cnt, nres, guard, excess>>

\* a waiter that was suspended has been resumed by run()
WaitResumed(t) ==
    /\ cur = t /\ pc[t] = "wait"
    /\ pc' = [pc EXCEPT ![t] = "run"]
    /\ UNCHANGED <<q, running, cur, prog, nvals, ops, nops, data_, is_waked_up_,
                   chanVars, obsVars, join_waiters, exception, coro, jlog, cnt,
                   waiters, nres, guard, excess>>

\* mutant: the constructor of the guard calls add()
wg_guard_ctor_adds(t) ==
    /\ guard' = [guard EXCEPT ![t] = TRUE]
    /\ cnt' = cnt + 1

\* wg_guard_t::wg_guard_t only stores the pointer
wg_guard_ctor(t) ==
    /\ guard' = [guard EXCEPT ![t] = TRUE]
    /\ cnt' = cnt

\* wg_guard_t guard(&wg) at the head of the body of the running task
TaskGuard(t) ==
    /\ cur = t /\ pc[t] = "run" /\ MayIssue(t, "guard")
    /\ ~guard[t]
    /\ Issued(t, "guard")
    /\ wg_guard_ctor(t)
    /\ UNCHANGED <<q, running, cur, pc, prog, nvals, data_, is_waked_up_, chanVars,
                   obsVars, join_waiters, exception, coro, jlog, waiters, nres,
                   excess>>

\* wg.add(delta) called by the running task
TaskAdd(t, delta) ==
    /\ cur = t /\ pc[t] = "run" /\ MayIssue(t, "add")
    /\ cnt + delta <= MaxCnt
    /\ Issued(t, "add")
    /\ wg_add(delta)
    /\ UNCHANGED <<q, running, cur, pc, prog, nvals, data_, is_waked_up_, chanVars,
                   obsVars, join_waiters, exception, coro, jlog, waiters, nres, guard, excess>>

\* wg.add(delta) called by the running task with any delta of the counter's
\* type
TaskAddAny(t, delta) ==
    /\ cur = t /\ pc[t] = "run" /\ MayIssue(t, "add")
    /\ Issued(t, "add")
    /\ wg_add(delta)
    /\ UNCHANGED <<q, running, cur, pc, prog, nvals, data_, is_waked_up_, chanVars,
                   obsVars, join_waiters, exception, coro, jlog, waiters, nres, guard, excess>>

\* wg.add(delta) called by main between two run() calls
MainAdd(delta) ==
    /\ ~running
    /\ cnt + delta <= MaxCnt
    /\ wg_add(delta)
    /\ UNCHANGED <<q, running, cur, taskVars, chanVars, obsVars,
                   join_waiters, exception, coro, jlog, waiters, nres, guard, excess>>

\* wg.done() called by the running task
TaskDone(t) ==
    /\ cur = t /\ pc[t] = "run" /\ MayIssue(t, "done")
    /\ Issued(t, "done")
    /\ wg_done
    /\ UNCHANGED <<running, cur, pc, prog, nvals, data_, is_waked_up_, chanVars,
                   obsVars, join_waiters, exception, coro, jlog, nres, guard>>

\* wg.done() called by main between two run() calls
MainDone ==
    /\ ~running
    /\ wg_done
    /\ UNCHANGED <<running, cur, taskVars, chanVars, obsVars,
                   join_waiters, exception, coro, jlog, nres, guard>>

\* ------------------------------------------------------------- scheduler_t::run

\* main calls scheduler_t::instance().run()
run_begin ==
    /\ ~running
    /\ running' = TRUE
    /\ UNCHANGED <<q, cur, chanVars, taskVars, obsVars, syncVars>>

\* one iteration of the loop of run(): pop the front handle and resume it
\* unless the coroutine is done
run_step ==
    /\ running /\ cur = 0 /\ q # <<>>
    /\ q' = Tail(q)
    /\ LET handle == Head(q) IN
       IF pc[handle] = "destroyed"
       THEN \* handle.done() reads a destroyed frame: undefined behaviour, the
            \* handle is skipped or the destroyed frame is resumed
            \/ UNCHANGED <<cur, pc>>
            \/ /\ pc' = [pc EXCEPT ![handle] = "zombie"]
               /\ cur' = cur
       ELSE IF pc[handle] # "done"
       THEN /\ cur' = handle
            /\ pc' = [pc EXCEPT ![handle] =
                         IF @ \in {"created", "yield", "bare"} THEN "run" ELSE @]
       ELSE UNCHANGED <<cur, pc>>
    /\ UNCHANGED <<syncVars, running, prog, nvals, ops, nops, data_, is_waked_up_, chanVars,
                   obsVars>>

\* mutant: run() returns after one handle, whatever is left in the queue
run_return_early ==
    /\ running /\ cur = 0
    /\ running' = FALSE
    /\ UNCHANGED <<q, cur, chanVars, taskVars, obsVars, syncVars>>

\* the loop of run() ends when the queue is empty
run_return ==
    /\ running /\ cur = 0 /\ q = <<>>
    /\ running' = FALSE
    /\ UNCHANGED <<q, cur, chanVars, taskVars, obsVars, syncVars>>

\* ------------------------------------------------------------- specifications

InitCommon ==
    /\ q = <<>> /\ running = FALSE /\ cur = 0
    /\ pc = [t \in Tasks |-> "created"]
    /\ ops = [t \in Tasks |-> 0] /\ nops = 0
    /\ cap_ \in 0..MaxCap
    /\ dataq = <<>> /\ handoff_q = <<>> /\ closed_ = FALSE
    /\ rq = <<>> /\ wq = <<>>
    /\ data_ = [t \in Tasks |-> 0]
    /\ is_waked_up_ = [t \in Tasks |-> FALSE]
    /\ rlog = [t \in Tasks |-> <<>>]
    /\ wres = <<>> /\ delivered = <<>> /\ adopted = {} /\ accepted = {}
    /\ atClose = [done |-> FALSE, buf |-> <<>>, hand |-> <<>>, parked |-> {},
                  readers |-> {}, writers |-> {}]
    /\ postClose = <<>>
    /\ join_waiters = [t \in Tasks |-> <<>>]
    /\ exception = [t \in Tasks |-> nullptr]
    /\ coro = [t \in Tasks |-> 0]
    /\ jlog = [t \in Tasks |-> <<>>]
    /\ cnt = 0 /\ waiters = <<>>
    /\ nres = 0
    /\ guard = [t \in Tasks |-> FALSE]
    /\ excess = FALSE

\* any tasks: every task issues operations of its own choice
Init ==
    /\ InitCommon
    /\ prog = [t \in Tasks |-> IF t <= NLive THEN "free" ELSE "none"]
    /\ nvals = 0

\* one producer and k >= 1 consumers, the producer being the p-th task started
InitPC ==
    /\ InitCommon
    /\ nvals \in 1..MaxN
    /\ \E k \in 1..(NLive - 1) : \E p \in 1..(k + 1) :
          prog = [t \in Tasks |-> IF t = p THEN "producer"
                                  ELSE IF t <= k + 1 THEN "consumer" ELSE "none"]

TaskStep ==
    \E t \in Tasks :
        \/ Read(t)
        \/ ReadResumed(t)
        \/ Write(t)
        \/ WriteResumed(t)
        \/ TaskClose(t)
        \/ co_return(t)

Next ==
    \/ \E t \in Tasks : co_resume(t)
    \/ run_begin
    \/ run_step
    \/ run_return
    \/ TaskStep
    \/ \E t \in Tasks : yield_resched(t)
    \/ MainClose

NextPC ==
    \/ \E t \in Tasks : co_resume(t)
    \/ run_begin
    \/ run_step
    \/ run_return
    \/ TaskStep

Spec == Init /\ [][Next]_vars

SpecPC == InitPC /\ [][NextPC]_vars

\* tasks that yield, join each other, return or throw; the channel is not used
InitJoin ==
    /\ InitCommon
    /\ cap_ = 0
    /\ prog = [t \in Tasks |-> IF t <= NLive THEN "join" ELSE "none"]
    /\ nvals = 0

\* tasks that yield and use the wait group; the channel is not used
InitWg ==
    /\ InitCommon
    /\ cap_ = 0
    /\ prog = [t \in Tasks |-> IF t <= NLive THEN "wg" ELSE "none"]
    /\ nvals = 0

SchedStep ==
    \/ \E t \in Tasks : co_resume(t)
    \/ run_begin
    \/ run_step
    \/ run_return
    \/ \E t \in Tasks : yield_resched(t)
    \/ \E t \in Tasks : co_return(t)

NextJoin ==
    \/ SchedStep
    \/ \E t, u \in Tasks : Join(t, u)
    \/ \E t \in Tasks : JoinResumed(t)
    \/ \E t \in Tasks : \E e \in Errors : Throw(t, e)

NextWg ==
    \/ SchedStep
    \/ \E t \in Tasks : Wait(t)
    \/ \E t \in Tasks : WaitResumed(t)
    \/ \E t \in Tasks : \E delta \in 1..MaxCnt : TaskAdd(t, delta)
    \/ \E delta \in 1..MaxCnt : MainAdd(delta)
    \/ \E t \in Tasks : TaskDone(t)
    \/ MainDone

\* the wait group with add() of any delta, up to the wrap of the counter
NextWrap ==
    \/ SchedStep
    \/ \E t \in Tasks : Wait(t)
    \/ \E t \in Tasks : WaitResumed(t)
    \/ \E t \in Tasks : \E delta \in 1..(CntModulus - 1) : TaskAddAny(t, delta)
    \/ \E t \in Tasks : TaskDone(t)

SpecWrap == InitWg /\ [][NextWrap]_vars

\* every primitive in use on an unbuffered or a one-slot channel, and main may
\* call resume() again on a started task
InitAll ==
    /\ InitCommon
    /\ cap_ <= 1
    /\ prog = [t \in Tasks |-> IF t <= NAll THEN "any" ELSE "none"]
    /\ nvals = 0

NextAll ==
    \/ SchedStep
    \/ TaskStep
    \/ \E t, u \in Tasks : Join(t, u)
    \/ \E t \in Tasks : JoinResumed(t)
    \/ \E t \in Tasks : Wait(t)
    \/ \E t \in Tasks : WaitResumed(t)
    \/ \E t \in Tasks : TaskAdd(t, 1)
    \/ \E t \in Tasks : TaskDone(t)
    \/ \E t \in Tasks : co_resume_again(t)

\* a waiter that calls wg.add(n) and waits, started before its n workers;
\* every worker holds a wg_guard_t and ends by co_return or by an exception
InitGuard ==
    /\ InitCommon
    /\ cap_ = 0
    /\ nvals \in 1..(NLive - 1)
    /\ prog = [t \in Tasks |-> IF t = 1 THEN "waiter"
                               ELSE IF t <= nvals + 1 THEN "worker" ELSE "none"]

NextGuard ==
    \/ SchedStep
    \/ \E t \in Tasks : TaskGuard(t)
    \/ \E t \in Tasks : TaskAdd(t, nvals)
    \/ \E t \in Tasks : Wait(t)
    \/ \E t \in Tasks : WaitResumed(t)
    \/ \E t \in Tasks : \E e \in Errors : Throw(t, e)

SpecJoin == InitJoin /\ [][NextJoin]_vars
SpecGuard == InitGuard /\ [][NextGuard]_vars

\* one task that calls close() twice, started before, between or after
\* tasks that read, write and close as they like
InitClose ==
    /\ InitCommon
    /\ nvals = 0
    /\ \E k \in 1..NLive :
          prog = [t \in Tasks |-> IF t = k THEN "closer"
                                   ELSE IF t <= NLive THEN "any" ELSE "none"]

NextClose ==
    \/ SchedStep
    \/ TaskStep
    \/ MainClose

SpecClose == InitClose /\ [][NextClose]_vars

\* receivers started in order on an unbuffered channel, then one sender
InitFifo ==
    /\ InitCommon
    /\ cap_ = 0
    /\ nvals \in 1..MaxN
    /\ \E n \in 1..NLive :
          prog = [t \in Tasks |-> IF t <= n THEN "receiver"
                                   ELSE IF t = n + 1 THEN "sender" ELSE "none"]

\* one task writing n <= capacity values to a buffered channel and reading
\* them back, beside tasks that only yield
InitRoundTrip ==
    /\ InitCommon
    /\ cap_ > 0
    /\ nvals \in 1..cap_
    /\ \E n \in 1..NLive :
          prog = [t \in Tasks |-> IF t = 1 THEN "roundtrip"
                                   ELSE IF t <= n THEN "yielder" ELSE "none"]

InitScen == InitFifo \/ InitRoundTrip

NextScen ==
    \/ SchedStep
    \/ \E t \in Tasks : Read(t)
    \/ \E t \in Tasks : ReadResumed(t)
    \/ \E t \in Tasks : Write(t)
    \/ \E t \in Tasks : WriteResumed(t)

SpecScen == InitScen /\ [][NextScen]_vars

\* tasks that only yield, with and without rescheduling
InitYield ==
    /\ InitCommon
    /\ cap_ = 0
    /\ nvals = 0
    /\ prog = [t \in Tasks |-> IF t <= NLive THEN "yielder" ELSE "none"]

NextYield ==
    \/ SchedStep
    \/ \E t \in Tasks : yield_no_sched(t)
    \/ \E t \in Tasks : resume_yielded(t)

SpecYield == InitYield /\ [][NextYield]_vars

\* yielding tasks whose owning handles main may drop at any time between
\* two run() calls
NextDrop ==
    \/ SchedStep
    \/ \E t \in Tasks : co_destroy(t)

SpecDrop == InitYield /\ [][NextDrop]_vars
SpecAll == InitAll /\ [][NextAll]_vars
SpecWg == InitWg /\ [][NextWg]_vars

\* ------------------------------------------------------------- properties

\* run() has returned and nothing is ready
Quiescent == ~running /\ cur = 0 /\ q = <<>>

\* the channel holds a value a reader could take
Deliverable == dataq # <<>> \/ handoff_q # <<>>

\* C1: a read resolves std::nullopt only on a closed channel that holds no
\* deliverable item; on an open channel a read (also the read of a reader
\* that was suspended and then woken) never resolves nullopt.
C1_ReadNoneOnlyWhenClosedAndDrained ==
    [][\A t \in Tasks :
          rlog'[t] = Append(rlog[t], nullopt) => closed_ /\ ~Deliverable]_vars

\* C2: whenever run() has returned with an empty ready queue, an open
\* channel never has both a suspended reader and a deliverable item.
C2_NoParkedReaderWithItemAtQuiescence ==
    (Quiescent /\ ~closed_) => ~(rq # <<>> /\ Deliverable)

\* C3: the value of a writer that was suspended when the channel was closed
\* (its value still in the handoff queue) is never returned by a read, and
\* that write does not resolve true.
C3_ParkedValueDroppedOnClose ==
    \A v \in atClose.parked : wres[v] # "true" /\ v \notin Range(delivered)

\* C4: a suspended write resolves false only if no reader adopted its value
\* (took it from the handoff queue or promoted it into the buffer); a write
\* whose value was adopted resolves true, also when close() comes between the
\* adoption and the writer's dispatch.
C4_AdoptedWriteResolvesTrue ==
    [][\A v \in DOMAIN wres :
          (wres[v] = "pending" /\ wres'[v] = "false") => v \notin adopted]_vars

\* values are numbered in the order in which their writes were issued, so a
\* sequence of values is in write order iff it is strictly increasing
InWriteOrder(s) == \A i, j \in 1..Len(s) : i < j => s[i] < s[j]

\* C5: the values returned by reads (across all readers) come in the order
\* in which their writes were issued.
C5_DeliveryIsFifo == InWriteOrder(delivered)

\* C5 witness: with a buffer, a value that a suspended writer left in the
\* handoff queue has been promoted and read after an earlier value.
C5_Witness ==
    /\ cap_ > 0 /\ Len(delivered) >= 2
    /\ delivered[Len(delivered)] \in adopted

\* the producer/consumer bodies: the sequence a lone consumer must observe
Expected == [i \in 1..(nvals + 1) |-> IF i <= nvals THEN i ELSE nullopt]

IsPrefix(s, r) == Len(s) <= Len(r) /\ \A i \in 1..Len(s) : s[i] = r[i]

Consumers == {t \in Tasks : prog[t] = "consumer"}

\* every task main created has been started and run() has returned
AllRun == Quiescent /\ \A t \in Tasks : prog[t] # "none" => Started(t)

AllDone == \A t \in Tasks : prog[t] # "none" => pc[t] = "done"

\* C6: one producer writing 1,2,3 then closing an unbuffered channel, two
\* consumers reading until nullopt, any start order: once everything has run,
\* all three tasks are completed, each of 1,2,3 was returned exactly once and
\* each consumer's last read is nullopt; no value is ever returned twice.
C6_TwoConsumersNoLossNoDup ==
    (cap_ = 0 /\ nvals = 3 /\ Cardinality(Consumers) = 2) =>
        /\ Len(delivered) = Cardinality(Range(delivered))
        /\ AllRun =>
             /\ AllDone
             /\ Len(delivered) = 3 /\ Range(delivered) = 1..3
             /\ \A t \in Consumers : lastReadNone(t)

\* C6 witness: the run has ended, the three values were read, and close()
\* found a consumer suspended.
C6_Witness ==
    /\ cap_ = 0 /\ nvals = 3 /\ Cardinality(Consumers) = 2
    /\ AllRun /\ AllDone
    /\ Len(delivered) = 3 /\ atClose.readers # {}

size == Len(dataq)
ready == dataq # <<>>

\* C8: the buffer never holds more than cap_ items; for an unbuffered channel
\* it is always empty (size() = 0, ready() = false).
C8_BufferWithinCapacity ==
    /\ size <= cap_
    /\ cap_ = 0 => (size = 0 /\ ~ready)

\* C8 witness: a full buffer, a promotion that happened, a writer still parked.
C8_Witness ==
    /\ cap_ > 0 /\ size = cap_
    /\ adopted # {} /\ wq # <<>>

\* C9: close() leaves no task in the channel's wait queues, and once run()
\* has returned after a close no task is suspended in a read or a write:
\* every read has resolved and every write has resolved.
C9_CloseWakesEveryone ==
    closed_ =>
        /\ rq = <<>> /\ wq = <<>>
        /\ Quiescent =>
             /\ \A t \in Tasks : pc[t] \notin {"read", "write"}
             /\ \A v \in DOMAIN wres : wres[v] # "pending"
             /\ \A t \in atClose.readers : rlog[t] # <<>>

\* C9 witness: close() found a suspended reader and a suspended writer, and
\* the run after it has ended.
C9_Witness ==
    /\ closed_ /\ Quiescent
    /\ atClose.readers # {} /\ atClose.writers # {}

\* a task suspended in a read that nobody has scheduled
ReaderLeftSuspended(t) == pc[t] = "read" /\ t \notin Range(q) /\ cur # t

AfterClose == atClose.buf \o atClose.hand

C11_WriteOnClosedResolvesFalse ==
    [][(closed_ /\ Len(wres') = Len(wres) + 1) =>
          /\ wres'[Len(wres')] = "false"
          /\ UNCHANGED <<dataq, handoff_q, rq, wq, q, pc, cur>>]_vars

\* a write that was issued after close() (its value never entered the handoff
\* queue) has resolved false
C11_Witness ==
    /\ closed_
    /\ \E v \in DOMAIN wres :
          /\ wres[v] = "false"
          /\ v \notin Range(atClose.hand) /\ v \notin adopted
          /\ v \notin Range(handoff_q)


\* ------------------------------------------------------------- scheduler

\* number of references to task t in a queue
Count(t, s) == Cardinality({i \in 1..Len(s) : s[i] = t})

\* C12: the scheduler dispatches strictly FIFO. Whatever the source of a
\* wake-up (start, reschedule yield, channel, wait group, join), a step changes
\* the ready queue only by appending at its tail or by popping its head, and
\* the task that is resumed is the head that was popped.
C12_SchedulerFifo ==
    [][/\ (cur' # cur /\ cur' # 0) => (q # <<>> /\ cur' = Head(q) /\ q' = Tail(q))
       /\ \/ IsPrefix(q, q')
          \/ q # <<>> /\ q' = Tail(q)]_vars

\* during run(), a task woken through a primitive is queued in front of a task
\* that rescheduled itself after the wake-up
C12_Witness ==
    /\ running /\ Len(q) >= 2
    /\ pc[q[1]] \in {"read", "write", "join", "wait"}
    /\ pc[q[2]] = "yield"

\* the join waiters of the tasks 1..n
RECURSIVE JoinWaiting(_)
JoinWaiting(n) == IF n = 0 THEN 0 ELSE Len(join_waiters[n]) + JoinWaiting(n - 1)

\* the references held by the wait queues
Enrolled == Len(rq) + Len(wq) + Len(waiters) + JoinWaiting(NTasks)

\* a natural number that every step inside run() makes smaller: what is left
\* of the operation budget, the tasks not completed, the references held by
\* the wait queues and by the ready queue, the await_resume still to run
Variant ==
    6 * (MaxAllOps - nops)
      + Cardinality({t \in Tasks : pc[t] # "done"})
      + 3 * Enrolled
      + 2 * Len(q)
      + (IF cur # 0 /\ pc[cur] # "run" THEN 1 ELSE 0)

\* C13: run() drains the queue. It returns only when the ready queue is
\* empty, so a task enqueued during the dispatch is popped by the same run();
\* and as long as the tasks issue finitely many operations every step inside
\* run() decreases a natural number, so run() does return.
C13_RunDrainsQueue ==
    [][/\ (running /\ ~running') => (q = <<>> /\ cur = 0)
       /\ (running /\ running') => (Variant' < Variant /\ Variant' >= 0)]_vars

\* run() has returned after every task issued operations and completed
C13_Witness ==
    /\ Quiescent /\ AllDone
    /\ nops = MaxAllOps

\* C14: only run() transfers control into a task. Control enters a task only
\* when run() pops it from the head of the queue; a step of main never runs a
\* task; a step of the running task leaves every other task where it is
\* suspended (a woken task is only appended to the queue) and the running
\* task keeps the control until it suspends or completes itself.
C14_OnlyRunTransfersControl ==
    [][/\ cur = 0 => \/ cur' = 0 /\ pc' = pc
                     \/ /\ running /\ q # <<>> /\ cur' = Head(q) /\ q' = Tail(q)
                        /\ \A u \in Tasks \ {cur'} : pc'[u] = pc[u]
       /\ cur # 0 => /\ cur' \in {cur, 0}
                     /\ (cur' = 0) = (pc'[cur] # "run")
                     /\ \A u \in Tasks \ {cur} : pc'[u] = pc[u]]_vars

\* the running task has woken another task and is still executing
C14_Witness ==
    /\ cur # 0 /\ pc[cur] = "run"
    /\ \E u \in Range(q) : u # cur /\ pc[u] \in {"read", "write", "join", "wait"}

\* C15: Completed is terminal. A completed task never leaves "done", is never
\* given the control again and is never appended to the ready queue; a
\* reference to it that is still queued is popped without resuming it.
C15_CompletedIsTerminal ==
    [][\A t \in Tasks : pc[t] = "done" =>
          /\ pc'[t] = "done"
          /\ cur' # t
          /\ Count(t, q') <= Count(t, q)]_vars

\* a task that was enqueued twice has completed and run() is about to pop its
\* second reference
C15_Witness ==
    /\ running /\ cur = 0 /\ q # <<>>
    /\ pc[Head(q)] = "done"


\* ------------------------------------------------------------- join

\* C16: a task awaiting join(u) continues past the join only when u is
\* completed; it suspends only if u has not completed, and is then enrolled
\* as a join waiter of u; a suspended joiner is put on the ready queue only
\* by the step in which u reaches its final suspension.
C16_JoinContinuesOnlyWhenCompleted ==
    [][\A t \in Tasks :
          /\ Len(jlog'[t]) > Len(jlog[t]) => completed(coro'[t])
          /\ (pc[t] = "run" /\ pc'[t] = "join") =>
                /\ ~completed(coro'[t])
                /\ join_waiters'[coro'[t]] = Append(join_waiters[coro'[t]], t)
          /\ (pc[t] = "join" /\ Count(t, q') > Count(t, q)) =>
                ~completed(coro[t]) /\ pc'[coro[t]] = "done"]_vars

\* a joiner that was suspended has been put on the ready queue by the
\* completion of the task it joins
C16_Witness ==
    \E t \in Tasks : pc[t] = "join" /\ t \in Range(q) /\ completed(coro[t])

\* C17: every join on a task u has raised exactly the exception u failed with,
\* and nothing if u completed successfully, whether the joiner had been
\* suspended on u or joined after u had completed.
C17_JoinRaisesTheFailure ==
    \A t \in Tasks : \A i \in 1..Len(jlog[t]) :
        /\ completed(jlog[t][i][1])
        /\ jlog[t][i][2] = get_exception(jlog[t][i][1])

\* a task failed; one joiner that had enrolled before and one that joined
\* after the completion were both raised its exception
C17_Witness ==
    \E u, a, b \in Tasks :
        /\ exception[u] # nullptr
        /\ <<u, exception[u], TRUE>> \in Range(jlog[a])
        /\ <<u, exception[u], FALSE>> \in Range(jlog[b])

\* C18: the step in which a task completes appends its join waiters to the
\* ready queue, each exactly once and in enrolment order, and leaves its
\* join-waiter queue empty; when run() returns no joiner of a completed task
\* is still suspended.
C18_CompletionWakesJoinersInOrder ==
    [][/\ \A t \in Tasks :
            /\ (~completed(t) /\ pc'[t] = "done") =>
                  /\ q' = q \o join_waiters[t]
                  /\ \A u \in Tasks : Count(u, join_waiters[t]) <= 1
            /\ pc'[t] = "done" => join_waiters'[t] = <<>>
       /\ (running /\ ~running') =>
             \A t \in Tasks : ~(pc[t] = "join" /\ completed(coro[t]))]_vars

\* two joiners of the same completed task are on the ready queue
C18_Witness ==
    \E i, j \in 1..Len(q) :
        /\ i < j /\ q[i] # q[j]
        /\ pc[q[i]] = "join" /\ pc[q[j]] = "join"
        /\ coro[q[i]] = coro[q[j]] /\ completed(coro[q[i]])

C20_WaitUntilCounterZero ==
    [][\A t \in Tasks :
          /\ (pc[t] = "run" /\ pc'[t] = "wait") =>
                cnt > 0 /\ waiters' = Append(waiters, t)
          /\ (pc[t] = "run" /\ cnt = 0) => pc'[t] # "wait"
          /\ (t \in Range(waiters) /\ t \notin Range(waiters')) =>
                cnt = 1 /\ cnt' = 0 /\ Count(t, q') = Count(t, q) + 1
          /\ (pc[t] = "wait" /\ Count(t, q') > Count(t, q)) =>
                cnt' = 0 /\ t \in Range(waiters)
          /\ cnt' > 0 => IsPrefix(waiters, waiters')]_vars

\* a waiter that suspended on a counter > 0 has been put on the ready queue,
\* once, by the done() that brought the counter to 0
C20_Witness ==
    \E t \in Tasks :
        /\ pc[t] = "wait" /\ Count(t, q) = 1
        /\ cnt = 0 /\ waiters = <<>>


\* C21: WaitGroup broadcast. A task suspended in wait() is either still
\* enrolled with the counter > 0, or on the ready queue, or executing: the
\* zero transition empties the waiters and leaves no waiter behind, so when
\* run() has returned every waiter of a counter that reached 0 has resolved.
C21_ZeroTransitionWakesAll ==
    /\ cnt = 0 => waiters = <<>>
    /\ \A t \in Tasks : pc[t] = "wait" =>
          \/ cnt > 0 /\ Count(t, waiters) = 1
          \/ t \in Range(q)
          \/ cur = t

\* two waiters woken by the same zero transition are on the ready queue
C21_Witness ==
    /\ cnt = 0 /\ waiters = <<>>
    /\ \E t, u \in Range(q) : t # u /\ pc[t] = "wait" /\ pc[u] = "wait"

\* C22: done() saturates at zero. The counter is never negative and a step
\* lowers it by at most one; a step that starts and ends with the counter at
\* 0 (a done() in excess) leaves the waiters empty and puts no waiting task
\* on the ready queue; a wait() issued while the counter is 0 does not suspend.
C22_DoneSaturatesAtZero ==
    [][/\ cnt' >= 0 /\ cnt' >= cnt - 1
       /\ (cnt = 0 /\ cnt' = 0) =>
             /\ waiters = <<>> /\ waiters' = <<>>
             /\ \A t \in Tasks : pc[t] = "wait" => Count(t, q') <= Count(t, q)
       /\ cnt = 0 => \A t \in Tasks : ~(pc[t] = "run" /\ pc'[t] = "wait")]_vars

\* done() has been called in excess of add(), the counter is 0, and a task
\* is executing after operations that did not suspend it
C22_Witness ==
    /\ excess /\ cnt = 0 /\ waiters = <<>>
    /\ cur # 0 /\ pc[cur] = "run" /\ nops = MaxWgOps

\* C23: the scoped guard. Constructing a guard changes neither the counter
\* nor any queue; the step in which the body of a task holding a guard ends,
\* by co_return or by an exception, lowers the counter by exactly one, and
\* nothing else lowers it; once the waiter that called add(n) and its n
\* guarded workers have all been started and run() has returned, every task
\* is completed and the counter is 0.
C23_GuardDecrementsOnEveryExit ==
    [][/\ \A t \in Tasks :
            /\ (~guard[t] /\ guard'[t]) =>
                  cnt' = cnt /\ q' = q /\ waiters' = waiters
            /\ (guard[t] /\ pc'[t] = "done") =>
                  cnt > 0 /\ cnt' = cnt - 1 /\ ~guard'[t]
            /\ guard'[t] => pc'[t] # "done"
       /\ cnt' < cnt => \E t \in Tasks : guard[t] /\ pc'[t] = "done"
       /\ AllRun' => (AllDone' /\ cnt' = 0)]_vars

\* everything has run: one guarded worker failed, another returned, and the
\* waiter has been released
C23_Witness ==
    /\ AllRun /\ AllDone /\ nvals = 2
    /\ \E t, u \in Tasks :
          /\ prog[t] = "worker" /\ exception[t] # nullptr
          /\ prog[u] = "worker" /\ exception[u] = nullptr

\* C27: the step that brings the counter to 0 appends the waiters to the
\* ready queue in the order in which they enrolled.
C27_WaitersWokenInEnrolmentOrder ==
    [][/\ (cnt > 0 /\ cnt' = 0) => q' = q \o waiters
       /\ \A t \in Tasks : (pc[t] = "run" /\ pc'[t] = "wait") =>
             waiters' = Append(waiters, t)]_vars

\* two waiters are on the ready queue, the later started task first: it
\* enrolled before the other
C27_Witness ==
    /\ cnt = 0
    /\ \E i, j \in 1..Len(q) :
          /\ i < j /\ q[i] > q[j]
          /\ pc[q[i]] = "wait" /\ pc[q[j]] = "wait"


\* C28: the reschedule yield appends the yielding task at the tail of the
\* ready queue; while it waits there, the queue only grows at the tail or
\* loses its head to the dispatch of run(), so everything queued before it is
\* dispatched before it; run() returns with no task left at such a yield.
C28_ReschedYieldGoesToTail ==
    [][/\ \A t \in Tasks : (pc[t] = "run" /\ pc'[t] = "yield") =>
             running /\ q' = Append(q, t)
       /\ (\E t \in Tasks : pc[t] = "yield") =>
             \/ IsPrefix(q, q')
             \/ /\ running /\ q # <<>> /\ q' = Tail(q)
                /\ cur' = Head(q) \/ pc[Head(q)] = "done"
       /\ \A t \in Tasks : (pc[t] = "yield" /\ pc'[t] # "yield") =>
             q # <<>> /\ Head(q) = t /\ cur' = t /\ pc'[t] = "run"
       /\ (running /\ ~running') => \A t \in Tasks : pc[t] # "yield"]_vars

\* a task has just yielded behind another task that yielded before it
C28_Witness ==
    /\ running /\ Len(q) >= 2
    /\ pc[q[1]] = "yield" /\ pc[q[Len(q)]] = "yield" /\ q[1] # q[Len(q)]

\* C29: the bare yield leaves the ready queue as it is; a task suspended at
\* a bare yield and not queued stays so, whatever run() does, until a step
\* that does nothing but append it to the ready queue (resume()); it leaves
\* the yield only by being dispatched by run(), and run() does not return
\* while a task it has to resume is queued.
C29_BareYieldNeedsExplicitResume ==
    [][/\ \A t \in Tasks : (pc[t] = "run" /\ pc'[t] = "bare") =>
             q' = q /\ t \notin Range(q')
       /\ \A t \in Tasks : (pc[t] = "bare" /\ t \notin Range(q)) =>
             /\ pc'[t] = "bare"
             /\ t \in Range(q') => q' = Append(q, t) /\ pc' = pc /\ cur' = cur
       /\ \A t \in Tasks : (pc[t] = "bare" /\ pc'[t] # "bare") =>
             running /\ q # <<>> /\ Head(q) = t /\ cur' = t /\ pc'[t] = "run"
       /\ (running /\ ~running') =>
             \A t \in Tasks : pc'[t] = "bare" => t \notin Range(q')]_vars

\* run() is about to resume a task that was enqueued after its bare yield,
\* while another task stays suspended at its bare yield, in no queue
C29_Witness ==
    /\ running /\ q # <<>> /\ pc[Head(q)] = "bare"
    /\ \E u \in Tasks : pc[u] = "bare" /\ u \notin Range(q)


\* the tasks that read once, in the order in which they were started
Receivers == {t \in Tasks : prog[t] = "receiver"}

\* C24: blocked receivers are served FIFO. With receivers R1..Rn parked in
\* that order on an unbuffered channel and a sender then writing 1, 2, ..,
\* the i-th receiver gets the i-th value and the receivers complete in the
\* order in which they enrolled; once everything has run, every receiver
\* for which a value was written has got its value.
C24_BlockedReceiversServedFifo ==
    /\ \A t \in Receivers : rlog[t] = <<>> \/ rlog[t] = <<t>>
    /\ \A i \in 1..Len(delivered) : Receivers # {} => delivered[i] = i
    /\ \A t, u \in Receivers : (t < u /\ rlog[u] # <<>>) => rlog[t] # <<>>
    /\ AllRun => \A t \in Receivers : t <= nvals => (rlog[t] = <<t>> /\ pc[t] = "done")

\* three receivers were parked and each got the value of its rank
C24_Witness ==
    /\ AllRun /\ Cardinality(Receivers) = 3
    /\ \A t \in Receivers : rlog[t] = <<t>>

\* C25: buffered round trip. A task that writes n <= capacity values to an
\* empty open buffered channel and then reads n times is never suspended in
\* a read or a write, every write resolves true, the reads return the values
\* written in order, and none of its operations changes the ready queue.
C25_BufferedRoundTrip ==
    [][\A t \in Tasks : prog[t] = "roundtrip" =>
          /\ pc'[t] \in {"created", "run", "done"}
          /\ \A v \in 1..Len(wres') : wres'[v] = "true"
          /\ Len(wres') = IF ops'[t] < nvals THEN ops'[t] ELSE nvals
          /\ rlog'[t] = [i \in 1..(IF ops'[t] > nvals THEN ops'[t] - nvals ELSE 0) |-> i]
          /\ ops'[t] # ops[t] => q' = q /\ cur' = t]_vars

\* the round trip of as many values as the buffer holds is complete
C25_Witness ==
    /\ prog[1] = "roundtrip" /\ pc[1] = "done"
    /\ nvals = MaxCap /\ Len(rlog[1]) = MaxCap
    /\ \E t \in Tasks : pc[t] = "yield"


\* C26: close is one-way and idempotent. A closed channel stays closed, and
\* no task is suspended on it, so close() finds nobody to schedule; the step
\* of a task body that calls close() on a closed channel changes neither the
\* channel, nor the ready queue, nor anything a task has observed.
C26_CloseOneWayIdempotent ==
    [][/\ closed_ => closed_'
       /\ closed_' => rq' = <<>> /\ wq' = <<>>
       /\ \A t \in Tasks :
             (closed_ /\ prog[t] = "closer" /\ ops'[t] # ops[t]) =>
                 UNCHANGED <<q, chanVars, obsVars, pc, cur, running>>]_vars

\* both close() calls of the closer are done, and the first close() of the
\* channel had found a suspended reader to wake
C26_Witness ==
    /\ closed_ /\ atClose.readers # {}
    /\ \E t \in Tasks : prog[t] = "closer" /\ ops[t] = 2


\* C30: unbuffered rendezvous. On a channel of capacity 0 a sender that was
\* suspended resolves true only once its own value has left the handoff
\* queue, and a reader that takes the head of the handoff queue releases the
\* front suspended sender only if the value it took is that sender's.
C30_ParkedSenderReleasedByItsOwnValue ==
    [][cap_ = 0 =>
          /\ \A t \in Tasks :
                (pc[t] = "write" /\ pc'[t] = "run" /\ wres'[data_[t]] = "true") =>
                    data_[t] \notin Range(handoff_q')
          /\ (handoff_q # <<>> /\ handoff_q' = Tail(handoff_q) /\ wq # <<>> /\ wq' = Tail(wq)) =>
                    data_[Head(wq)] = Head(handoff_q)]_vars


\* C31: on an unbuffered channel the handoff queue never holds more items
\* than there are suspended senders.
C31_HandoffBoundedByParkedSenders ==
    cap_ = 0 => Len(handoff_q) <= Len(wq)

\* C32: on a buffered channel a sender is suspended only while the buffer is
\* full: with a free slot in the buffer the sender wait queue is empty.
C32_BlockedSenderOnlyWhenFull ==
    (cap_ > 0 /\ Len(dataq) < cap_) => wq = <<>>

\* a sender is suspended on a full buffer after a read has already promoted
\* the value of an earlier suspended sender
C32_Witness ==
    /\ cap_ > 0 /\ Len(dataq) = cap_ /\ wq # <<>>
    /\ adopted # {}

\* C33: on an open buffered channel the suspended senders and the handoff
\* items are paired one to one in the same order, so the value a read
\* promotes when it wakes the front sender is that sender's own; a sender
\* woken by a reader has its value in the buffer or already read.
C33_SendersPairedWithHandoff ==
    (cap_ > 0 /\ ~closed_) =>
        /\ Len(handoff_q) = Len(wq)
        /\ \A i \in 1..Len(wq) : handoff_q[i] = data_[wq[i]]
        /\ \A t \in Tasks : (pc[t] = "write" /\ t \notin Range(wq)) =>
              (data_[t] \in Range(dataq) \/ data_[t] \in Range(delivered))

\* a woken sender waits for its dispatch with its value promoted into the
\* buffer, while another sender is still suspended
C33_Witness ==
    /\ cap_ > 0 /\ ~closed_ /\ wq # <<>>
    /\ \E t \in Range(q) : pc[t] = "write" /\ data_[t] \in Range(dataq)


\* the values a buffered channel has returned, holds in its buffer and holds
\* for its suspended senders, oldest first
InTransit == delivered \o dataq \o handoff_q

\* C34: blocked senders are released FIFO. Values are numbered in the order
\* in which their writes were issued, so on a buffered channel: the values
\* read, buffered and parked follow one another in that order; on the open
\* channel the senders woken and not yet dispatched sit on the ready queue
\* in the order in which they parked, ahead of every sender still parked,
\* each with its value promoted by a read, one promotion per value read.
C34_BlockedSendersReleasedFifo ==
    cap_ > 0 =>
        /\ \A i, j \in 1..Len(InTransit) : i < j => InTransit[i] < InTransit[j]
        /\ Cardinality(adopted) <= Len(delivered)
        /\ ~closed_ =>
              /\ \A i, j \in 1..Len(wq) : i < j => data_[wq[i]] < data_[wq[j]]
              /\ \A i, j \in 1..Len(q) :
                    (i < j /\ pc[q[i]] = "write" /\ pc[q[j]] = "write") =>
                        data_[q[i]] < data_[q[j]]
              /\ \A t \in Tasks : (pc[t] = "write" /\ t \notin Range(wq)) =>
                    /\ data_[t] \in adopted
                    /\ \A u \in Range(wq) : data_[t] < data_[u]

\* two senders that parked on the full buffer have been woken by two reads
\* and wait for their dispatch in the order in which they parked
C34_Witness ==
    /\ cap_ > 0 /\ ~closed_ /\ Len(delivered) >= 2
    /\ \E i, j \in 1..Len(q) :
          i < j /\ pc[q[i]] = "write" /\ pc[q[j]] = "write"


\* C35: the step that closes the channel appends to the ready queue all
\* suspended readers in the order in which they enrolled, then all suspended
\* senders in the order in which they enrolled, and empties both wait queues;
\* the scheduler being FIFO, the next run() resumes them in that order.
C35_CloseWakesReadersThenSenders ==
    [][(~closed_ /\ closed_') =>
          /\ q' = q \o rq \o wq
          /\ rq' = <<>> /\ wq' = <<>>]_vars

\* close() found a suspended reader and a suspended sender: both are on the
\* ready queue, the reader first
C35_Witness ==
    /\ closed_
    /\ \E i, j \in 1..Len(q) :
          /\ i < j
          /\ q[i] \in atClose.readers /\ pc[q[i]] = "read"
          /\ q[j] \in atClose.writers /\ pc[q[j]] = "write"


\* C37: value conservation. The writes whose value was pushed onto the
\* buffer or the handoff queue are as many as the values returned by reads
\* plus the items in the buffer plus the items in the handoff queue; no value
\* is returned by two reads, and every value returned was written.
C37_ValueConservation ==
    /\ Cardinality(accepted) = Len(delivered) + Len(dataq) + Len(handoff_q)
    /\ \A i, j \in 1..Len(delivered) : i # j => delivered[i] # delivered[j]
    /\ Range(delivered) \subseteq accepted
    /\ accepted \subseteq 1..Len(wres)

\* values have been read, buffered and parked, and a write on the closed
\* channel was refused without entering the channel
C37_Witness ==
    /\ delivered # <<>> /\ dataq # <<>> /\ handoff_q # <<>>
    /\ Cardinality(accepted) < Len(wres)


\* the number of references to task t in the join-waiter queues of tasks 1..n
RECURSIVE JoinRefs(_, _)
JoinRefs(t, n) == IF n = 0 THEN 0 ELSE Count(t, join_waiters[n]) + JoinRefs(t, n - 1)

\* the number of references to task t in the ready queue and all wait queues
Refs(t) == Count(t, q) + Count(t, rq) + Count(t, wq) + Count(t, waiters) + JoinRefs(t, NTasks)

\* C38: every task is referenced at most once across the ready queue and
\* the wait queues, and a task referenced in a wait queue is suspended at
\* that await, also when main calls resume() on a task that is already
\* queued or suspended on a primitive.
C38_TaskReferencedAtMostOnce ==
    \A t \in Tasks :
        /\ Refs(t) <= 1
        /\ Count(t, rq) > 0 => pc[t] = "read"
        /\ Count(t, wq) > 0 => pc[t] = "write"
        /\ Count(t, waiters) > 0 => pc[t] = "wait"
        /\ JoinRefs(t, NTasks) > 0 => pc[t] = "join"


\* C39: at the moment an awaited wait() returns control to its task, the
\* counter is 0.
C39_CounterZeroWhenWaitReturns ==
    [][\A t \in Tasks : (pc[t] = "wait" /\ pc'[t] = "run") => cnt' = 0]_vars


\* C40: whenever the counter is 0 the waiter queue is empty, the counter
\* being an unsigned integer on which add() wraps.
C40_ZeroCounterNoWaiters ==
    cnt = 0 => waiters = <<>>


\* C36: run() never resumes a destroyed task: a reference in the ready queue
\* to a task whose frame was destroyed is skipped when it is popped.
C36_DestroyedTaskNeverResumed ==
    \A t \in Tasks : pc[t] # "zombie"

=============================================================================
